---- MODULE Spec2Model ----
(***************************************************************************)
(* Model of clifford_circuit.py: random_params (the sampler),              *)
(* build_circuit (the builder) and main (the timestep driver).             *)
(*                                                                         *)
(* Floats are modelled in tenths: 0 is 0.0, 4 stands for a value just      *)
(* below one half, 5 is 0.5, 9 a value just below 1 and 10 is 1.0.         *)
(* Python lists are TLA+ sequences (1-based); qubit identities are the     *)
(* LineQubit coordinates 0..N-1.  A circuit is the sequence of operations  *)
(* in the order build_circuit appends them.                                *)
(***************************************************************************)
EXTENDS Integers, Sequences, FiniteSets

VARIABLES pc, nsteps, nqubits, qubits, timestep, params, circuit, raised,
          draws, simLog, trace

vars == <<pc, nsteps, nqubits, qubits, timestep, params, circuit, raised,
          draws, simLog, trace>>

\* ---------------------------------------------------------------- bounds

\* Largest chain for which build_circuit is given every matrix over {4, 5}.
MaxFull == 1
\* Largest chain build_circuit is given.
MaxQubits == 4
\* Largest chain main is called with.
MaxChain == 1
\* Largest nsteps argument handed to main.
MaxSteps == 2

\* ------------------------------------------------------------- constants

NSTEPS == 1
NQUBITS == 4
\* The 0.5 of "p >= 0.5", in tenths.
Threshold == 5

\* Values random.random() may return, in tenths: all lie in [0, 1).
RandVals == {4, 5}
\* Values a caller may put into a parameter matrix, in tenths.
ParamVals == {0, 4, 5, 10}

Min(a, b) == IF a <= b THEN a ELSE b

\* ------------------------------------------------------------ operations

Op(gate, qs) == [gate |-> gate, qubits |-> qs]

\* [cirq.LineQubit(x) for x in range(nqubits)]
LineQubits(n) == [x \in 1..n |-> x - 1]

\* zip(qubits, ps): stops at the shorter of the two.
Zip(qs, ps) == [i \in 1..Min(Len(qs), Len(ps)) |-> <<qs[i], ps[i]>>]

SelectedStrict(p) == p > Threshold
\* "if p >= 0.5"
Selected(p) == p >= Threshold

\* circuit.append(gate(q) for q, p in zip(qubits, ps) if p >= 0.5)
Phase(gate, qs, ps) ==
    LET kept == SelectSeq(Zip(qs, ps), LAMBDA e : Selected(e[2]))
    IN  [i \in 1..Len(kept) |-> Op(gate, <<kept[i][1]>>)]

\* qubits[:-1]
AllButLast(qs) == SubSeq(qs, 1, Len(qs) - 1)

CNOTOpSwapped(qs, qi) == Op("CNOT", <<qs[qi + 2], qs[qi + 1]>>)
\* cirq.CNOT(q, qubits[qi+1]), q being qubits[qi]
CNOTOp(qs, qi) == Op("CNOT", <<qs[qi + 1], qs[qi + 2]>>)

\* The loop "for qi, q in enumerate(qubits[:-1])" from index qi on, acc being
\* the operations appended so far.  params[1][qi] raises IndexError when the
\* CNOT row has no entry qi.
RECURSIVE CNOTLoop(_, _, _, _)
CNOTLoop(qs, ps, qi, acc) ==
    IF qi >= Len(AllButLast(qs)) THEN [raised |-> "none", ops |-> acc]
    ELSE IF qi + 1 > Len(ps) THEN [raised |-> "IndexError", ops |-> acc]
    ELSE CNOTLoop(qs, ps, qi + 1,
                  IF Selected(ps[qi + 1]) THEN Append(acc, CNOTOp(qs, qi))
                  ELSE acc)

\* build_circuit with the neighbour taken round the chain (periodic boundary).
build_circuit_periodic(qs, p) ==
    LET n == Len(qs)
        ring == SelectSeq([i \in 1..Min(n, Len(p[2])) |-> i],
                          LAMBDA i : Selected(p[2][i]))
        cn == [j \in 1..Len(ring) |->
                 Op("CNOT", <<qs[ring[j]], qs[(ring[j] % n) + 1]>>)]
    IN  [raised |-> "none",
         circuit |-> Phase("reset", qs, p[1]) \o cn
                     \o Phase("H", qs, p[3]) \o Phase("S", qs, p[4])
                     \o Phase("T", qs, p[5]) \o Phase("measure", qs, p[6])]

\* build_circuit with the measurement appended before the T gates.
build_circuit_measure_early(qs, p) ==
    LET cn == CNOTLoop(qs, p[2], 0, <<>>)
    IN  IF cn.raised # "none" THEN [raised |-> cn.raised, circuit |-> <<>>]
        ELSE [raised |-> "none",
              circuit |-> Phase("reset", qs, p[1]) \o cn.ops
                          \o Phase("H", qs, p[3]) \o Phase("S", qs, p[4])
                          \o Phase("measure", qs, p[6]) \o Phase("T", qs, p[5])]

\* build_circuit(qubits, params): the circuit returned, or the exception
\* raised (then no circuit is returned).
build_circuit(qs, p) ==
    LET cn == CNOTLoop(qs, p[2], 0, <<>>)
    IN  IF cn.raised # "none" THEN [raised |-> cn.raised, circuit |-> <<>>]
        ELSE [raised |-> "none",
              circuit |-> Phase("reset", qs, p[1]) \o cn.ops
                          \o Phase("H", qs, p[3]) \o Phase("S", qs, p[4])
                          \o Phase("T", qs, p[5]) \o Phase("measure", qs, p[6])]

\* random_params with the CNOT row drawn for the nqubits-1 pairs only.
random_params_short(n) ==
    {m \in [1..6 -> UNION {[1..k -> RandVals] : k \in {n, n - 1} \cap Nat}] :
        /\ \A k \in {1, 3, 4, 5, 6} : Len(m[k]) = n
        /\ Len(m[2]) = IF n > 0 THEN n - 1 ELSE 0}
\* random_params(nqubits): every matrix the six list comprehensions can
\* produce, each entry its own random.random() call.
random_params(n) == [1..6 -> [1..n -> RandVals]]

\* The number of random.random() calls one random_params(n) makes.
DrawsOf(n) == 6 * n

\* -------------------------------------------------------------- the driver

\* main(nsteps, nqubits) is called.
Init ==
    /\ pc = "main"
    /\ nsteps \in 0..MaxSteps
    /\ nqubits \in 0..MaxChain
    /\ qubits = <<>>
    /\ timestep = -1
    /\ params = <<>>
    /\ circuit = <<>>
    /\ raised = "none"
    /\ draws = 0
    /\ simLog = <<>>
    /\ trace = <<>>

\* simulator = cirq.Simulator(); qubits = [cirq.LineQubit(x) ...]
Setup ==
    /\ pc = "main"
    /\ qubits' = LineQubits(nqubits)
    /\ pc' = "for"
    /\ UNCHANGED <<nsteps, nqubits, timestep, params, circuit, raised, draws,
                   simLog, trace>>

\* for timestep in range(NSTEPS): the next value, or the end of the loop.
ForNext ==
    /\ pc = "for"
    /\ IF timestep + 1 < NSTEPS
       THEN /\ timestep' = timestep + 1
            /\ pc' = "sample"
       ELSE /\ timestep' = timestep
            /\ pc' = "done"
    /\ UNCHANGED <<nsteps, nqubits, qubits, params, circuit, raised, draws,
                   simLog, trace>>

\* params = random_params(nqubits)
Sample ==
    /\ pc = "sample"
    /\ params' \in random_params(nqubits)
    /\ draws' = draws + DrawsOf(nqubits)
    /\ trace' = Append(trace, "random_params")
    /\ pc' = "build"
    /\ UNCHANGED <<nsteps, nqubits, qubits, timestep, circuit, raised, simLog>>

\* circuit = build_circuit(qubits, params)
Build ==
    /\ pc = "build"
    /\ LET r == build_circuit(qubits, params)
       IN  /\ raised' = r.raised
           /\ circuit' = IF r.raised = "none" THEN r.circuit ELSE circuit
           /\ pc' = IF r.raised = "none" THEN "simulate" ELSE "raised"
    /\ trace' = Append(trace, "build_circuit")
    /\ UNCHANGED <<nsteps, nqubits, qubits, timestep, params, draws, simLog>>

SimulateSkipEmpty ==
    /\ pc = "simulate"
    /\ simLog' = IF circuit = <<>> THEN simLog ELSE Append(simLog, circuit)
    /\ trace' = IF circuit = <<>> THEN trace ELSE Append(trace, "simulate")
    /\ pc' = "for"
    /\ UNCHANGED <<nsteps, nqubits, qubits, timestep, params, circuit, raised,
                   draws>>
\* print(circuit); result = simulator.simulate(circuit, qubit_order=qubits)
Simulate ==
    /\ pc = "simulate"
    /\ simLog' = Append(simLog, circuit)
    /\ trace' = Append(trace, "simulate")
    /\ pc' = "for"
    /\ UNCHANGED <<nsteps, nqubits, qubits, timestep, params, circuit, raised,
                   draws>>

Next == Setup \/ ForNext \/ Sample \/ Build \/ Simulate

Spec == Init /\ [][Next]_vars

\* ------------------------------------------------- build_circuit on its own

\* Every matrix of matching shape over the two values next to the threshold.
FullMatrices(n) == [1..6 -> [1..n -> {4, 5}]]

\* Matrices of matching shape whose rows are constant, each row just below
\* or at the threshold.
RowUniform(n) ==
    {[k \in 1..6 |-> [i \in 1..n |-> v[k]]] : v \in [1..6 -> {4, 5}]}

\* Matrices of matching shape with one value b everywhere (among them the
\* all-1.0 and the all-0.0 matrix), except for at most two entries next to
\* the threshold.
TwoOff(n) ==
    {[k \in 1..6 |-> [i \in 1..n |->
          IF <<k, i>> = c1 THEN v1 ELSE IF <<k, i>> = c2 THEN v2 ELSE b]] :
        b \in ParamVals, c1 \in (1..6) \X (1..n), c2 \in (1..6) \X (1..n),
        v1 \in {4, 5}, v2 \in {4, 5}}
        \cup {[k \in 1..6 |-> [i \in 1..n |-> b]] : b \in ParamVals}

\* Matrices whose rows have any of the lengths n-1, n, n+1.
Ragged(n) ==
    {[k \in 1..6 |-> [i \in 1..len[k] |-> v]] :
        len \in [1..6 -> {n - 1, n, n + 1} \cap Nat], v \in {4, 5}}

BuilderInputs(n) ==
    (IF n <= MaxFull THEN FullMatrices(n) ELSE {}) \cup RowUniform(n)
        \cup TwoOff(n) \cup Ragged(n)

\* build_circuit is about to be called on a chain of nqubits and any of the
\* enumerated matrices.
InitBuild ==
    /\ pc = "build"
    /\ nsteps = NSTEPS
    /\ nqubits \in 0..MaxQubits
    /\ qubits = LineQubits(nqubits)
    /\ timestep = 0
    /\ params \in BuilderInputs(nqubits)
    /\ circuit = <<>>
    /\ raised = "none"
    /\ draws = 0
    /\ simLog = <<>>
    /\ trace = <<>>

NextBuild == Build

SpecBuild == InitBuild /\ [][NextBuild]_vars

\* ------------------------------------------------------------ vocabulary

\* The number of qubits of the chain handed to build_circuit.
N == Len(qubits)

\* Every one of the six rows has one entry per qubit.
ShapeMatches == Len(params) = 6 /\ \A k \in 1..6 : Len(params[k]) = N

\* build_circuit has returned a circuit.
Returned == pc = "simulate" /\ raised = "none"

SingleGates == {"reset", "H", "S", "T", "measure"}

\* The row of the matrix (0-based, as in the source) that toggles a gate.
RowOf(gate) ==
    CASE gate = "reset" -> 0 [] gate = "CNOT" -> 1 [] gate = "H" -> 2
      [] gate = "S" -> 3 [] gate = "T" -> 4 [] gate = "measure" -> 5

\* Position of an operation in the order "phase first, then qubit index".
Rank(op) == RowOf(op.gate) * (N + 1) + op.qubits[1]

\* The operations the decision rule selects, as a set.
Wanted ==
    {Op(g, <<i>>) : g \in SingleGates, i \in 0..(N - 1)}
        \cup {Op("CNOT", <<i, i + 1>>) : i \in 0..(N - 2)}

Chosen == {op \in Wanted : params[RowOf(op.gate) + 1][op.qubits[1] + 1] >= 5}

CountOf(gate) == Cardinality({j \in 1..Len(circuit) : circuit[j].gate = gate})

AllEntries(v) == \A k \in 1..6 : \A i \in 1..Len(params[k]) : params[k][i] = v

\* ---------------------------------------------------------------- claims

\* C1: for N >= 1 and a matrix of matching shape, the circuit build_circuit
\* returns lists exactly the operations whose matrix entry is >= 0.5 (0.5
\* included, anything below excluded), phases in the order Reset, CNOT, H, S,
\* T, Measure and ascending qubit index within a phase; an all-1.0 matrix gives
\* N, N-1, N, N, N, N operations per phase, an all-0.0 matrix the empty circuit.
C1_PhaseOrder ==
    (pc # "build" /\ N >= 1 /\ ShapeMatches) =>
        /\ Returned
        /\ {circuit[j] : j \in 1..Len(circuit)} = Chosen
        /\ \A j \in 1..(Len(circuit) - 1) : Rank(circuit[j]) < Rank(circuit[j + 1])
        /\ AllEntries(10) =>
              /\ \A g \in SingleGates : CountOf(g) = N
              /\ CountOf("CNOT") = N - 1
        /\ AllEntries(0) => circuit = <<>>

\* A returned circuit on three qubits with two CNOTs, an entry of exactly 0.5
\* that is included and an entry below it that is excluded.
C1_Witness ==
    /\ Returned /\ ShapeMatches /\ N = 3
    /\ CountOf("CNOT") = 2
    /\ params[1][1] = 5 /\ Op("reset", <<0>>) \in {circuit[j] : j \in 1..Len(circuit)}
    /\ params[3][1] = 4 /\ CountOf("H") = 0

\* C2: a matrix whose shape does not match the qubit count makes build_circuit
\* fail with an error and return no circuit.
C2_FailsFast ==
    (pc # "build" /\ ~ShapeMatches) => (pc = "raised" /\ raised # "none")

\* C3: main called with nsteps = K runs exactly K iterations, each one Sampler
\* call, one Builder call and one Simulator call in this order.
C3_RunsNstepsIterations ==
    pc = "done" =>
        /\ Len(simLog) = nsteps
        /\ Len(trace) = 3 * nsteps
        /\ \A j \in 1..Len(trace) :
              trace[j] = CASE j % 3 = 1 -> "random_params"
                           [] j % 3 = 2 -> "build_circuit"
                           [] OTHER -> "simulate"

\* C4: every CNOT of a returned circuit is CNOT(control = i, target = i + 1)
\* with 0 <= i <= N - 2.
C4_CNOTNeighbours ==
    (Returned /\ N >= 1) =>
        \A j \in 1..Len(circuit) :
            circuit[j].gate = "CNOT" =>
                \E i \in 0..(N - 2) : circuit[j].qubits = <<i, i + 1>>

\* A returned circuit on three qubits holding both CNOT(0,1) and CNOT(1,2).
C4_Witness ==
    /\ Returned /\ N = 3
    /\ \E j \in 1..Len(circuit) : circuit[j] = Op("CNOT", <<0, 1>>)
    /\ \E j \in 1..Len(circuit) : circuit[j] = Op("CNOT", <<1, 2>>)

\* C5 as stated: for every N and a matrix of matching shape the circuit has
\* between 0 and 6N - 1 operations, at most N - 1 of them CNOTs.
C5_Original ==
    (Returned /\ ShapeMatches) =>
        /\ 0 <= Len(circuit) /\ Len(circuit) <= 6 * N - 1
        /\ CountOf("CNOT") <= N - 1

\* C5 amended: the bounds hold for N >= 1; for N = 0 the circuit is empty.
C5_Length ==
    (Returned /\ ShapeMatches) =>
        /\ N >= 1 => /\ 0 <= Len(circuit) /\ Len(circuit) <= 6 * N - 1
                     /\ CountOf("CNOT") <= N - 1
        /\ N = 0 => Len(circuit) = 0

\* A returned circuit that attains the bound 6N - 1 with N - 1 CNOTs.
C5_Witness ==
    /\ Returned /\ ShapeMatches /\ N = 3
    /\ Len(circuit) = 6 * N - 1 /\ CountOf("CNOT") = N - 1

\* C6: random_params(N) returns six sequences of length exactly N with every
\* entry in [0, 1), having drawn 6N values; for N = 0 six empty sequences.
C6_SamplerShape ==
    pc \in {"build", "simulate", "raised"} =>
        /\ Len(params) = 6
        /\ \A k \in 1..6 :
              /\ Len(params[k]) = nqubits
              /\ \A i \in 1..Len(params[k]) : 0 <= params[k][i] /\ params[k][i] < 10
        /\ draws = 6 * nqubits * (timestep + 1)
        /\ nqubits = 0 => params = [k \in 1..6 |-> <<>>]

\* The Sampler has returned a matrix for a chain of at least one qubit whose
\* Reset and CNOT rows differ.
C6_Witness ==
    /\ pc = "build" /\ nqubits >= 1 /\ Len(params) = 6
    /\ params[1] # params[2] /\ Len(params[2]) = nqubits
    /\ draws = 6 * nqubits

\* C7: with N = 0 the matrix is six empty sequences, the chain is empty,
\* build_circuit returns the empty circuit without raising, and every
\* iteration of the loop hands that empty circuit to the Simulator once.
C7_EmptyChain ==
    (nqubits = 0 /\ pc # "main") =>
        /\ qubits = <<>>
        /\ raised = "none" /\ pc # "raised"
        /\ circuit = <<>>
        /\ pc \in {"build", "simulate"} => params = [k \in 1..6 |-> <<>>]
        /\ \A j \in 1..Len(simLog) : simLog[j] = <<>>
        /\ Len(simLog) = timestep + 1
                           - (IF pc \in {"sample", "build", "simulate"} THEN 1 ELSE 0)

\* main has finished on an empty chain after handing one empty circuit to the
\* Simulator.
C7_Witness ==
    /\ nqubits = 0 /\ pc = "done"
    /\ simLog = << <<>> >>
    /\ trace = <<"random_params", "build_circuit", "simulate">>

\* The matrix with entry i (1-based) of row k (1-based) replaced by v.
WithEntry(k, i, v) == [params EXCEPT ![k][i] = v]

\* C9: for N >= 1 the last entry of the CNOT row is never read: replacing it by
\* any value leaves the circuit unchanged; moving any other entry across the
\* 0.5 threshold adds (upwards) or removes (downwards) exactly one operation.
C9_LastCNOTEntryUnread ==
    (Returned /\ ShapeMatches /\ N >= 1) =>
        /\ \A v \in ParamVals :
              build_circuit(qubits, WithEntry(2, N, v)) =
                  [raised |-> "none", circuit |-> circuit]
        /\ \A k \in 1..6 : \A i \in 1..N :
              (k # 2 \/ i # N) =>
                  LET up == params[k][i] < 5
                      r == build_circuit(qubits,
                                         WithEntry(k, i, IF up THEN 5 ELSE 4))
                  IN  /\ r.raised = "none"
                      /\ Len(r.circuit) = Len(circuit) + (IF up THEN 1 ELSE -1)

\* A returned circuit on two qubits and more whose last CNOT entry is at the
\* threshold although no CNOT has the last qubit as its control.
C9_Witness ==
    /\ Returned /\ ShapeMatches /\ N >= 2
    /\ params[2][N] = 5
    /\ params[2][N - 1] = 4
    /\ CountOf("CNOT") = N - 2

\* The operation at position j touches qubit q.
Touches(j, q) == \E x \in 1..Len(circuit[j].qubits) : circuit[j].qubits[x] = q

\* C10: in a circuit built from a matrix of matching shape no operation occurs
\* twice (one operation per kind and qubit, one CNOT per adjacent pair), and
\* among the operations touching a qubit a Reset comes first and a Measure last.
C10_ResetFirstMeasureLast ==
    (Returned /\ ShapeMatches) =>
        /\ \A j, k \in 1..Len(circuit) : circuit[j] = circuit[k] => j = k
        /\ \A j, k \in 1..Len(circuit) : \A q \in 0..(N - 1) :
              (j # k /\ Touches(j, q) /\ Touches(k, q)) =>
                  /\ circuit[j].gate = "reset" => j < k
                  /\ circuit[j].gate = "measure" => k < j

\* A returned circuit in which qubit 1 is reset, is the target of CNOT(0,1),
\* gets a T gate and is measured.
C10_Witness ==
    /\ Returned /\ ShapeMatches /\ N >= 2
    /\ \A g \in {"reset", "T", "measure"} :
          \E j \in 1..Len(circuit) : circuit[j] = Op(g, <<1>>)
    /\ \E j \in 1..Len(circuit) : circuit[j] = Op("CNOT", <<0, 1>>)

====
